---- MODULE Spec2Model ----
(***************************************************************************)
(* A model of ChiselPDF (src/main.py): the page-specification parser, the  *)
(* chunk-size parser, the overwrite probes, the three transforms and the   *)
(* process_pdf pipeline of PDFPageSelectorApp.                             *)
(*                                                                         *)
(* Texts are sequences of one-character strings, so that splitting,        *)
(* stripping and integer conversion are computed character by character.   *)
(***************************************************************************)
EXTENDS Integers, Sequences, FiniteSets, TLC

VARIABLES
    \* --- parse_page_ranges studied alone ---
    page_input,     \* the argument of the call under study
    pages,          \* its outcome (NotCalled before the call)
    page_input2,    \* a second argument, for comparing two specifications
    pages2,         \* the outcome for page_input2
    \* --- the filesystem ---
    fs,             \* existing files: resolved path -> content
    dirs,           \* existing directories (resolved)
    \* --- PDFPageSelectorApp ---
    input_path,     \* self.input_path (NoPath is None)
    output_path,    \* self.output_path (NoPath is None)
    current_mode,   \* self.current_mode.name
    page_entry,     \* text of self.page_entry
    button_enabled, \* self.process_button.isEnabled()
    \* --- one run of process_pdf ---
    pc,             \* position in process_pdf: idle, ensure, parse, probe, confirm, core, done
    runs,           \* Execute clicks so far
    parsed_input,   \* result of the mode's parser in this run
    probe,          \* result of the mode's overwrite probe: "none", "yes", "no"
    reply,          \* answer to the overwrite question: "none", "yes", "no"
    core,           \* what the mode's core function did in this run
    outcome,        \* how the run ended (the message shown), "running" meanwhile
    steps,          \* the pipeline steps entered in this run, in order
    fs0,            \* fs when Execute was clicked
    dirs0           \* dirs when Execute was clicked

parse_vars == <<page_input, pages, page_input2, pages2>>

world_vars == <<fs, dirs>>

app_vars == <<input_path, output_path, current_mode, page_entry, button_enabled>>

run_vars == <<pc, runs, parsed_input, probe, reply, core, outcome, steps, fs0, dirs0>>

vars == <<page_input, pages, page_input2, pages2, fs, dirs, input_path, output_path,
          current_mode, page_entry, button_enabled, pc, runs, parsed_input,
          probe, reply, core, outcome, steps, fs0, dirs0>>

-----------------------------------------------------------------------------
(* Bounds of the model.                                                    *)

\* Longest text given to parse_page_ranges alone.
MaxLen == 5

\* Longest text of each of two specifications that are compared.
MaxPairLen == 3

-----------------------------------------------------------------------------
(* Texts and Python's str / int primitives.                                *)

Digits == {"0", "1", "2", "3", "4", "5", "6", "7", "8", "9"}

DigitVal(c) ==
    CASE c = "0" -> 0 [] c = "1" -> 1 [] c = "2" -> 2 [] c = "3" -> 3
      [] c = "4" -> 4 [] c = "5" -> 5 [] c = "6" -> 6 [] c = "7" -> 7
      [] c = "8" -> 8 [] c = "9" -> 9

\* All texts over alphabet A of length at most n.
TextsUpTo(A, n) == UNION {[1..k -> A] : k \in 0..n}

\* str.replace(" ", "")
RemoveSpaces(s) == SelectSeq(s, LAMBDA c : c # " ")

RECURSIVE LStrip(_)
LStrip(s) == IF s # <<>> /\ Head(s) = " " THEN LStrip(Tail(s)) ELSE s

RECURSIVE RStrip(_)
RStrip(s) ==
    IF s # <<>> /\ s[Len(s)] = " " THEN RStrip(SubSeq(s, 1, Len(s) - 1)) ELSE s

\* str.strip()
Strip(s) == RStrip(LStrip(s))

\* Index of the first occurrence of c in s, 0 when there is none.
FindChar(s, c) ==
    IF \E i \in 1..Len(s) : s[i] = c
    THEN CHOOSE i \in 1..Len(s) : s[i] = c /\ \A j \in 1..(i - 1) : s[j] # c
    ELSE 0

\* str.split(sep): the parts between the separators, empty parts included.
RECURSIVE SplitOn(_, _)
SplitOn(s, sep) ==
    LET i == FindChar(s, sep)
    IN  IF i = 0 THEN <<s>>
        ELSE <<SubSeq(s, 1, i - 1)>> \o SplitOn(SubSeq(s, i + 1, Len(s)), sep)

\* Value of a non-empty run of decimal digits.
RECURSIVE DecimalValue(_)
DecimalValue(s) ==
    IF s = <<>> THEN 0
    ELSE 10 * DecimalValue(SubSeq(s, 1, Len(s) - 1)) + DigitVal(s[Len(s)])

AllDigits(s) == s # <<>> /\ \A i \in 1..Len(s) : s[i] \in Digits

\* int(text): surrounding blanks are ignored, then an optional minus sign and
\* at least one digit; anything else raises ValueError (ok = FALSE).
PyInt(text) ==
    LET s == Strip(text)
    IN  IF AllDigits(s) THEN [ok |-> TRUE, val |-> DecimalValue(s)]
        ELSE IF s # <<>> /\ Head(s) = "-" /\ AllDigits(Tail(s))
             THEN [ok |-> TRUE, val |-> 0 - DecimalValue(Tail(s))]
             ELSE [ok |-> FALSE, val |-> 0]

\* sorted(set) of integers: ascending, each element once (a scan of the
\* integers from the least to the greatest element, keeping the members).
Sorted(S) ==
    IF S = {} THEN <<>>
    ELSE LET lo == CHOOSE x \in S : \A y \in S : x <= y
             hi == CHOOSE x \in S : \A y \in S : y <= x
         IN  SelectSeq([i \in 1..(hi - lo + 1) |-> lo + i - 1], LAMBDA x : x \in S)

SeqToSet(q) == {q[i] : i \in 1..Len(q)}

-----------------------------------------------------------------------------
(* parse_page_ranges (src/main.py 49-66).                                  *)

\* ParsePart with range(start_page, end_page): the end is left out.
ParsePartHalfOpen(part) ==
    IF FindChar(part, "-") # 0
    THEN LET i == FindChar(part, "-")
             start == PyInt(SubSeq(part, 1, i - 1))
             end == PyInt(SubSeq(part, i + 1, Len(part)))
         IN  IF ~start.ok \/ ~end.ok
             THEN [ok |-> FALSE, err |-> "invalid literal", add |-> {}]
             ELSE IF start.val > end.val
                  THEN [ok |-> FALSE, err |-> "start > end", add |-> {}]
                  ELSE [ok |-> TRUE, err |-> "", add |-> start.val..(end.val - 1)]
    ELSE LET n == PyInt(part)
         IN  IF n.ok THEN [ok |-> TRUE, err |-> "", add |-> {n.val}]
             ELSE [ok |-> FALSE, err |-> "invalid literal", add |-> {}]

\* ParsePart without the start > end test: a descending range adds nothing.
ParsePartNoOrderTest(part) ==
    IF FindChar(part, "-") # 0
    THEN LET i == FindChar(part, "-")
             start == PyInt(SubSeq(part, 1, i - 1))
             end == PyInt(SubSeq(part, i + 1, Len(part)))
         IN  IF ~start.ok \/ ~end.ok
             THEN [ok |-> FALSE, err |-> "invalid literal", add |-> {}]
             ELSE [ok |-> TRUE, err |-> "", add |-> start.val..end.val]
    ELSE LET n == PyInt(part)
         IN  IF n.ok THEN [ok |-> TRUE, err |-> "", add |-> {n.val}]
             ELSE [ok |-> FALSE, err |-> "invalid literal", add |-> {}]

\* ParsePart that rejects page numbers below 1 at parse time.
ParsePartPositiveOnly(part) ==
    IF FindChar(part, "-") # 0
    THEN LET i == FindChar(part, "-")
             start == PyInt(SubSeq(part, 1, i - 1))
             end == PyInt(SubSeq(part, i + 1, Len(part)))
         IN  IF ~start.ok \/ ~end.ok
             THEN [ok |-> FALSE, err |-> "invalid literal", add |-> {}]
             ELSE IF start.val > end.val \/ start.val < 1
                  THEN [ok |-> FALSE, err |-> "start > end", add |-> {}]
                  ELSE [ok |-> TRUE, err |-> "", add |-> start.val..end.val]
    ELSE LET n == PyInt(part)
         IN  IF n.ok /\ n.val >= 1 THEN [ok |-> TRUE, err |-> "", add |-> {n.val}]
             ELSE [ok |-> FALSE, err |-> "invalid literal", add |-> {}]

\* One comma-separated part: the pages it adds, or the ValueError it raises.
ParsePart(part) ==
    IF FindChar(part, "-") # 0
    THEN LET i == FindChar(part, "-")
             start == PyInt(SubSeq(part, 1, i - 1))
             end == PyInt(SubSeq(part, i + 1, Len(part)))
         IN  IF ~start.ok \/ ~end.ok
             THEN [ok |-> FALSE, err |-> "invalid literal", add |-> {}]
             ELSE IF start.val > end.val
                  THEN [ok |-> FALSE, err |-> "start > end", add |-> {}]
                  ELSE [ok |-> TRUE, err |-> "", add |-> start.val..end.val]
    ELSE LET n == PyInt(part)
         IN  IF n.ok THEN [ok |-> TRUE, err |-> "", add |-> {n.val}]
             ELSE [ok |-> FALSE, err |-> "invalid literal", add |-> {}]

\* The for loop over the parts, from part k on, with the set built so far.
RECURSIVE ParseLoop(_, _, _)
ParseLoop(parts, k, acc) ==
    IF k > Len(parts) THEN [ok |-> TRUE, err |-> "", val |-> Sorted(acc)]
    ELSE IF parts[k] = <<>> THEN ParseLoop(parts, k + 1, acc)
         ELSE LET r == ParsePart(parts[k])
              IN  IF r.ok THEN ParseLoop(parts, k + 1, acc \cup r.add)
                  ELSE [ok |-> FALSE, err |-> r.err, val |-> <<>>]

parse_page_ranges(text) == ParseLoop(SplitOn(RemoveSpaces(text), ","), 1, {})

NotCalled == [ok |-> FALSE, err |-> "not called", val |-> <<>>]

-----------------------------------------------------------------------------
(* parse_chunk_size (src/main.py 69-77).                                   *)

E_CHUNK == "Chunk size must be a positive integer."

\* The parsed value is kept as a one-element sequence, so that parsed inputs
\* of all modes have one shape.
parse_chunk_size(text) ==
    LET n == PyInt(text)
    IN  IF n.ok /\ n.val > 0 THEN [ok |-> TRUE, err |-> "", val |-> <<n.val>>]
        ELSE [ok |-> FALSE, err |-> E_CHUNK, val |-> <<>>]

-----------------------------------------------------------------------------
(* Paths and the filesystem.                                               *)

\* A path is [dir, stem, ext]: Path.parent, Path.stem and the suffix.
\* NoPath stands for None.
NoPath == [dir |-> "", stem |-> "", ext |-> ""]

\* "/l" is a symbolic link to "/d"; "/n" is a directory that does not exist
\* at the start.
RawDirs == {"/d", "/l", "/n"}

\* Path.resolve() on the directory: the link is followed.
ResolveDir(d) == IF d = "/l" THEN "/d" ELSE d

\* Path(p).resolve(); files are stored under their resolved paths.
Resolve(p) == [p EXCEPT !.dir = ResolveDir(p.dir)]

\* os.path.exists(p) / Path.exists()
Exists(fsys, p) == Resolve(p) \in DOMAIN fsys

\* output_dir / f"{base_name}_part{chunk_num}.pdf"
PartFile(out, chunk_num) ==
    [dir |-> out.dir, stem |-> out.stem \o "_part" \o ToString(chunk_num), ext |-> "pdf"]

\* output_dir / f"{base_name}_page{page_num}.png"
PageFile(out, page_num) ==
    [dir |-> out.dir, stem |-> out.stem \o "_page" \o ToString(page_num), ext |-> "png"]

Pdf(pgs) == [kind |-> "pdf", pages |-> pgs]

Png(pg) == [kind |-> "png", pages |-> <<pg>>]

Junk == [kind |-> "junk", pages |-> <<>>]

-----------------------------------------------------------------------------
(* The overwrite probes (src/main.py 80-119).                              *)

check_overwrite_single_file(fsys, out, parsed) ==
    out # NoPath /\ Exists(fsys, out)

\* Only the first part is looked at.
check_overwrite_split_files(fsys, out, parsed) ==
    IF out = NoPath THEN FALSE ELSE Exists(fsys, PartFile(out, 1))

check_overwrite_image_files(fsys, out, parsed) ==
    IF out = NoPath THEN FALSE
    ELSE \E i \in 1..Len(parsed) : Exists(fsys, PageFile(out, parsed[i]))

-----------------------------------------------------------------------------
(* ensure_output_path (src/main.py 597-610): "" when the path is accepted,*)
(* otherwise the message of the ValueError.                                *)

E_NOOUT == "Please choose an output location before processing."

E_SAME == "Output file must be different from the input file."

\* The comparison made on the paths as given, without Path.resolve().
ensure_output_path_unresolved(inp, out) ==
    IF out = NoPath THEN E_NOOUT
    ELSE IF inp = NoPath THEN ""
         ELSE IF inp = out THEN E_SAME ELSE ""

ensure_output_path(inp, out) ==
    IF out = NoPath THEN E_NOOUT
    ELSE IF inp = NoPath THEN ""
         ELSE IF Resolve(inp) = Resolve(out) THEN E_SAME ELSE ""

-----------------------------------------------------------------------------
(* The document capability (PyMuPDF), as the transforms use it.            *)

\* Largest number of pages of the input document.
MaxPages == 3

E_OPEN == "Could not open the document."

E_IO == "I/O failure in the document library."

\* A failure of the library part-way through a transform: op "build" is an
\* insert_pdf (or a render) that raises, op "save" a save that raises, at the
\* at-th iteration of the transform's loop. NoFault: nothing fails.
NoFault == [op |-> "none", at |-> 0]

Faults == {NoFault} \cup [op : {"build", "save"}, at : 1..MaxPages]

\* fitz.open(path) can open the file: fitz.open(None) makes a new empty document.
CanOpen(fsys, inp) ==
    inp = NoPath \/ (Resolve(inp) \in DOMAIN fsys /\ fsys[Resolve(inp)].kind = "pdf")

\* The pages of the opened document.
OpenDoc(fsys, inp) == IF inp = NoPath THEN <<>> ELSE fsys[Resolve(inp)].pages

\* new_doc.insert_pdf(doc, from_page, to_page): 0-based, both ends included.
InsertPdf(new_doc, doc, from_page, to_page) ==
    new_doc \o SubSeq(doc, from_page + 1, to_page + 1)

\* A save succeeds only into an existing directory.
CanSave(ds, path) == ResolveDir(path.dir) \in ds

\* The filesystem after a file is written: created, or written over.
WriteFile(fsys, path, content) == (Resolve(path) :> content) @@ fsys

\* What a transform did: err is "" on a normal return and the error raised
\* otherwise; io_failed tells a library failure; open counts the document
\* handles opened and not closed when the transform ended; created lists the
\* files written, in order.
CoreResult(err, io_failed, open, created, valid, invalid, fsys, ds) ==
    [err |-> err, io_failed |-> io_failed, open |-> open, created |-> created,
     valid |-> valid, invalid |-> invalid, fs |-> fsys, dirs |-> ds]

\* The part of a result kept for the run: all but the filesystem.
Summary(r) ==
    [err |-> r.err, io_failed |-> r.io_failed, open |-> r.open, created |-> r.created,
     valid |-> r.valid, invalid |-> r.invalid]

NoCore == [err |-> "not called", io_failed |-> FALSE, open |-> 0, created |-> <<>>,
           valid |-> <<>>, invalid |-> <<>>]

\* The test with the last page left out.
InRangeBelowLast(page_num, total_pages) == 1 <= page_num /\ page_num < total_pages

\* Lines 131 and 207: 1 <= page_num <= total_pages
InRange(page_num, total_pages) == 1 <= page_num /\ page_num <= total_pages

ValidPages(page_numbers, total_pages) ==
    SelectSeq(page_numbers, LAMBDA p : InRange(p, total_pages))

InvalidPages(page_numbers, total_pages) ==
    SelectSeq(page_numbers, LAMBDA p : ~InRange(p, total_pages))

-----------------------------------------------------------------------------
(* trim_pdf (src/main.py 122-153).                                         *)

E_NOVALID_PDF == "No valid pages to include in the output PDF."

\* The loop of insert_pdf calls, from the i-th valid page on.
RECURSIVE TrimLoop(_, _, _, _)
TrimLoop(doc, valid_pages, i, new_doc) ==
    IF i > Len(valid_pages) THEN new_doc
    ELSE TrimLoop(doc, valid_pages, i + 1,
                  InsertPdf(new_doc, doc, valid_pages[i] - 1, valid_pages[i] - 1))

trim_pdf(fsys, ds, inp, page_numbers, out, fault) ==
    IF ~CanOpen(fsys, inp)
    THEN CoreResult(E_OPEN, TRUE, 0, <<>>, <<>>, <<>>, fsys, ds)
    ELSE
    LET doc == OpenDoc(fsys, inp)
        total_pages == Len(doc)
        valid_pages == ValidPages(page_numbers, total_pages)
        invalid_pages == InvalidPages(page_numbers, total_pages)
    IN  IF valid_pages = <<>>
        THEN \* doc.close(), then the error
             CoreResult(E_NOVALID_PDF, FALSE, 0, <<>>, valid_pages, invalid_pages, fsys, ds)
        ELSE IF fault.op = "build" /\ fault.at <= Len(valid_pages)
        THEN \* insert_pdf raises: doc and new_doc stay open
             CoreResult(E_IO, TRUE, 2, <<>>, valid_pages, invalid_pages, fsys, ds)
        ELSE IF fault.op = "save" \/ ~CanSave(ds, out)
        THEN \* save raises: doc and new_doc stay open
             CoreResult(E_IO, TRUE, 2, <<>>, valid_pages, invalid_pages, fsys, ds)
        ELSE CoreResult("", FALSE, 0, <<Resolve(out)>>, valid_pages, invalid_pages,
                        WriteFile(fsys, out, Pdf(TrimLoop(doc, valid_pages, 1, <<>>))), ds)

-----------------------------------------------------------------------------
(* split_pdf (src/main.py 156-194).                                        *)

Min(a, b) == IF a <= b THEN a ELSE b

\* The end of a chunk taken one page short.
ChunkEndShort(start_page, chunk_size, total_pages) ==
    Min(start_page + chunk_size - 1, total_pages)

\* Line 174: end_page = min(start_page + chunk_size, total_pages)
ChunkEnd(start_page, chunk_size, total_pages) ==
    Min(start_page + chunk_size, total_pages)

\* The for loop over range(0, total_pages, chunk_size), from start_page on.
RECURSIVE SplitLoop(_, _, _, _, _, _, _, _)
SplitLoop(doc, chunk_size, out, fault, ds, start_page, chunk_num, acc) ==
    IF start_page >= Len(doc)
    THEN \* doc.close(), normal return
         CoreResult("", FALSE, 0, acc.created, <<>>, <<>>, acc.fs, ds)
    ELSE LET end_page == ChunkEnd(start_page, chunk_size, Len(doc))
             new_doc == InsertPdf(<<>>, doc, start_page, end_page - 1)
             output_filename == PartFile(out, chunk_num)
         IN  IF fault.op = "build" /\ fault.at = chunk_num
             THEN CoreResult(E_IO, TRUE, 2, acc.created, <<>>, <<>>, acc.fs, ds)
             ELSE IF (fault.op = "save" /\ fault.at = chunk_num)
                     \/ ~CanSave(ds, output_filename)
             THEN CoreResult(E_IO, TRUE, 2, acc.created, <<>>, <<>>, acc.fs, ds)
             ELSE SplitLoop(doc, chunk_size, out, fault, ds,
                            start_page + chunk_size, chunk_num + 1,
                            [fs |-> WriteFile(acc.fs, output_filename, Pdf(new_doc)),
                             created |-> Append(acc.created, Resolve(output_filename))])

split_pdf(fsys, ds, inp, chunk_size, out, fault) ==
    IF ~CanOpen(fsys, inp)
    THEN CoreResult(E_OPEN, TRUE, 0, <<>>, <<>>, <<>>, fsys, ds)
    ELSE IF chunk_size <= 0
    THEN \* doc.close(), then the error
         CoreResult(E_CHUNK, FALSE, 0, <<>>, <<>>, <<>>, fsys, ds)
    ELSE SplitLoop(OpenDoc(fsys, inp), chunk_size, out, fault, ds, 0, 1,
                   [fs |-> fsys, created |-> <<>>])

-----------------------------------------------------------------------------
(* convert_to_images (src/main.py 197-249).                                *)

E_NOVALID_IMG == "No valid pages to convert to images."

\* The for loop over valid_pages, from the i-th on.
RECURSIVE ImageLoop(_, _, _, _, _, _, _, _)
ImageLoop(doc, valid_pages, invalid_pages, out, fault, ds, i, acc) ==
    IF i > Len(valid_pages)
    THEN \* doc.close(), normal return
         CoreResult("", FALSE, 0, acc.created, valid_pages, invalid_pages, acc.fs, ds)
    ELSE LET page_num == valid_pages[i]
             page == doc[(page_num - 1) + 1]    \* doc.load_page(page_num - 1)
             output_filename == PageFile(out, page_num)
         IN  IF fault.op \in {"build", "save"} /\ fault.at = i
             THEN \* get_pixmap or pix.save raises: doc stays open
                  CoreResult(E_IO, TRUE, 1, acc.created, valid_pages, invalid_pages,
                             acc.fs, ds)
             ELSE ImageLoop(doc, valid_pages, invalid_pages, out, fault, ds, i + 1,
                            [fs |-> WriteFile(acc.fs, output_filename, Png(page)),
                             created |-> Append(acc.created, Resolve(output_filename))])

convert_to_images(fsys, ds, inp, page_numbers, out, fault) ==
    IF ~CanOpen(fsys, inp)
    THEN CoreResult(E_OPEN, TRUE, 0, <<>>, <<>>, <<>>, fsys, ds)
    ELSE
    LET doc == OpenDoc(fsys, inp)
        total_pages == Len(doc)
        valid_pages == ValidPages(page_numbers, total_pages)
        invalid_pages == InvalidPages(page_numbers, total_pages)
    IN  IF valid_pages = <<>>
        THEN \* doc.close(), then the error
             CoreResult(E_NOVALID_IMG, FALSE, 0, <<>>, valid_pages, invalid_pages, fsys, ds)
        ELSE \* output_dir.mkdir(parents=True, exist_ok=True)
             ImageLoop(doc, valid_pages, invalid_pages, out, fault,
                       ds \cup {ResolveDir(out.dir)}, 1,
                       [fs |-> fsys, created |-> <<>>])

-----------------------------------------------------------------------------
(* The modes (src/main.py 290-324): each bundles a parser, an overwrite    *)
(* probe, a core function and an output suffix.                            *)

Modes == {"selection", "split", "image"}

OutputSuffix(mode) ==
    CASE mode = "selection" -> "_trimmed"
      [] mode = "split" -> "_split"
      [] mode = "image" -> "_images"

parse_input_func(mode, text) ==
    IF mode = "split" THEN parse_chunk_size(text) ELSE parse_page_ranges(text)

check_overwrite_func(mode, fsys, out, parsed) ==
    CASE mode = "selection" -> check_overwrite_single_file(fsys, out, parsed)
      [] mode = "split" -> check_overwrite_split_files(fsys, out, parsed)
      [] mode = "image" -> check_overwrite_image_files(fsys, out, parsed)

core_func(mode, fsys, ds, inp, parsed, out, fault) ==
    CASE mode = "selection" -> trim_pdf(fsys, ds, inp, parsed, out, fault)
      [] mode = "split" -> split_pdf(fsys, ds, inp, parsed[1], out, fault)
      [] mode = "image" -> convert_to_images(fsys, ds, inp, parsed, out, fault)

-----------------------------------------------------------------------------
(* The world the application starts in.                                    *)

\* Most files, other than the input documents, that exist at the start.
MaxPre == 1

\* Most Execute clicks in one behaviour.
MaxRuns == 1

File(d, stem, ext) == [dir |-> d, stem |-> stem, ext |-> ext]

\* The files the user can pick in the open dialog: a PDF, a file that is no
\* PDF, and a PDF (when it is there) named like the first part of a split.
InputChoices ==
    {File("/d", "a", "pdf"), File("/d", "bad", "pdf"), File("/d", "out_part1", "pdf")}

\* The files the user can pick in the save dialog.
OutputChoices ==
    {File(d, "out", "pdf") : d \in RawDirs} \cup {File("/d", "a", "pdf"), File("/l", "a", "pdf")}

\* Files that may be there before the application starts; their content is
\* a page labelled 0, which no input document has.
PreCandidates ==
    {File("/d", "out", "pdf"), File("/d", "out_part1", "pdf"),
     File("/d", "out_part2", "pdf"), File("/d", "out_page1", "png")}

OldContent(f) == IF f.ext = "png" THEN Png(0) ELSE Pdf(<<0>>)

\* The input document has pages labelled 1..n.
InitialFs(n, pre) ==
    [f \in {File("/d", "a", "pdf"), File("/d", "bad", "pdf")} \cup pre |->
        IF f = File("/d", "a", "pdf") THEN Pdf([i \in 1..n |-> i])
        ELSE IF f = File("/d", "bad", "pdf") THEN Junk
        ELSE OldContent(f)]

\* The texts typed into the page entry.
RawTexts ==
    { <<>>, <<" ">>, <<"x">>, <<"1">>, <<"2">>,
      <<"0", "-", "2">>, <<"5", ",", "1", "-", "3">> }

NotParsed == [ok |-> FALSE, err |-> "not called", val |-> <<>>]

\* The values of a run's variables while no run is going on.
RunReset ==
    /\ parsed_input' = NotParsed
    /\ probe' = "none"
    /\ reply' = "none"
    /\ core' = NoCore
    /\ outcome' = "none"
    /\ steps' = <<>>
    /\ fs0' = <<>>
    /\ dirs0' = {}

ParseIdle ==
    /\ page_input = <<>>
    /\ pages = NotCalled
    /\ page_input2 = <<>>
    /\ pages2 = NotCalled

\* The application after construction (src/main.py 284-329, 371); no run yet.
AppInit ==
    /\ dirs = {"/d"}
    /\ input_path = NoPath
    /\ output_path = NoPath
    /\ current_mode = "selection"
    /\ page_entry = <<>>
    /\ button_enabled = FALSE
    /\ pc = "idle"
    /\ runs = 0
    /\ parsed_input = NotParsed
    /\ probe = "none"
    /\ reply = "none"
    /\ core = NoCore
    /\ outcome = "none"
    /\ steps = <<>>
    /\ fs0 = <<>>
    /\ dirs0 = {}

Init ==
    /\ ParseIdle
    /\ fs \in {InitialFs(n, pre) :
                 n \in 0..MaxPages,
                 pre \in {S \in SUBSET PreCandidates : Cardinality(S) <= MaxPre}}
    /\ AppInit

\* The user interface takes input while no run is going on.
UiReady == pc = "idle" /\ runs < MaxRuns

-----------------------------------------------------------------------------
(* The handlers of the user interface (src/main.py 486-543).               *)

\* _update_output_suggestion: the path suggested for an input and a mode.
SuggestedOutput(inp, out, mode) ==
    IF inp = NoPath THEN out
    ELSE File(inp.dir, inp.stem \o OutputSuffix(mode), "pdf")

\* browse_input: the dialog is cancelled, or the picked file is opened to
\* count its pages; a file that cannot be opened unsets input_path.
browse_input ==
    /\ UiReady
    /\ \E filename \in InputChoices \cup {NoPath} :
         IF filename = NoPath
         THEN UNCHANGED <<input_path, output_path, button_enabled>>
         ELSE IF CanOpen(fs, filename)
              THEN /\ input_path' = filename
                   /\ output_path' = SuggestedOutput(filename, output_path, current_mode)
                   /\ button_enabled' = TRUE
              ELSE /\ input_path' = NoPath
                   /\ UNCHANGED <<output_path, button_enabled>>
    /\ UNCHANGED <<current_mode, page_entry>>
    /\ UNCHANGED <<parse_vars, world_vars, run_vars>>

\* browse_output: the dialog is cancelled, or the picked path is kept.
browse_output ==
    /\ UiReady
    /\ \E filename \in OutputChoices \cup {NoPath} :
         output_path' = IF filename = NoPath THEN output_path ELSE filename
    /\ UNCHANGED <<input_path, current_mode, page_entry, button_enabled>>
    /\ UNCHANGED <<parse_vars, world_vars, run_vars>>

\* _on_mode_changed for the radio button that becomes checked.
on_mode_changed ==
    /\ UiReady
    /\ \E mode \in Modes \ {current_mode} :
         /\ current_mode' = mode
         /\ output_path' = SuggestedOutput(input_path, output_path, mode)
    /\ page_entry' = <<>>
    /\ UNCHANGED <<input_path, button_enabled>>
    /\ UNCHANGED <<parse_vars, world_vars, run_vars>>

\* The user types a text into the page entry.
edit_page_entry ==
    /\ UiReady
    /\ \E text \in RawTexts : page_entry' = text
    /\ UNCHANGED <<input_path, output_path, current_mode, button_enabled>>
    /\ UNCHANGED <<parse_vars, world_vars, run_vars>>

-----------------------------------------------------------------------------
(* process_pdf (src/main.py 545-579), step by step. A run starts with a    *)
(* click on Execute and ends in pc = "done", where outcome tells how.      *)

E_BLANK == "Please enter the input."

E_INVALID == "Invalid input"

\* The text process_pdf works on: self.page_entry.text().strip()
StrippedEntry == Strip(page_entry)

\* _confirm_overwrite (lines 581-588): only Yes confirms.
confirm_overwrite_always(answer) == TRUE

confirm_overwrite(answer) == answer = "yes"

\* Lines 568-573: where process_pdf goes after the probe.
AfterProbeSkipConfirm(found) == "core"

AfterProbe(found) == IF found THEN "confirm" ELSE "core"

\* The run ends with an error caught by the except clause (lines 576-579).
Fail(message) ==
    /\ pc' = "done"
    /\ outcome' = message

\* Lines 546-555: a blank text ends the run with a warning, before anything
\* else is looked at.
process_pdf ==
    /\ pc = "idle"
    /\ button_enabled
    /\ runs < MaxRuns
    /\ runs' = runs + 1
    /\ fs0' = fs
    /\ dirs0' = dirs
    /\ steps' = <<>>
    /\ IF StrippedEntry = <<>>
       THEN /\ pc' = "done"
            /\ outcome' = E_BLANK
       ELSE /\ pc' = "ensure"
            /\ outcome' = "running"
    /\ UNCHANGED <<parsed_input, probe, reply, core>>
    /\ UNCHANGED <<input_path, output_path, current_mode, page_entry, button_enabled>>
    /\ UNCHANGED <<parse_vars, world_vars>>

\* Line 559: self._ensure_output_path()
ensure_step ==
    /\ pc = "ensure"
    /\ steps' = Append(steps, "ensure")
    /\ LET message == ensure_output_path(input_path, output_path)
       IN  IF message = ""
           THEN pc' = "parse" /\ UNCHANGED outcome
           ELSE Fail(message)
    /\ UNCHANGED <<runs, parsed_input, probe, reply, core, fs0, dirs0>>
    /\ UNCHANGED <<input_path, output_path, current_mode, page_entry, button_enabled>>
    /\ UNCHANGED <<parse_vars, world_vars>>

\* Lines 562-565: the mode's parser; its ValueError becomes "Invalid input".
parse_step ==
    /\ pc = "parse"
    /\ steps' = Append(steps, "parse")
    /\ LET r == parse_input_func(current_mode, StrippedEntry)
       IN  /\ parsed_input' = r
           /\ IF r.ok
              THEN pc' = "probe" /\ UNCHANGED outcome
              ELSE Fail(E_INVALID)
    /\ UNCHANGED <<runs, probe, reply, core, fs0, dirs0>>
    /\ UNCHANGED <<input_path, output_path, current_mode, page_entry, button_enabled>>
    /\ UNCHANGED <<parse_vars, world_vars>>

\* Line 568: the mode's overwrite probe.
probe_step ==
    /\ pc = "probe"
    /\ steps' = Append(steps, "probe")
    /\ LET found == check_overwrite_func(current_mode, fs, output_path, parsed_input.val)
       IN  /\ probe' = IF found THEN "yes" ELSE "no"
           /\ pc' = AfterProbe(found)
    /\ UNCHANGED <<runs, parsed_input, reply, core, outcome, fs0, dirs0>>
    /\ UNCHANGED <<input_path, output_path, current_mode, page_entry, button_enabled>>
    /\ UNCHANGED <<parse_vars, world_vars>>

\* Lines 569-570 and _confirm_overwrite (581-588): the user answers the
\* question; anything but Yes returns from process_pdf.
confirm_step ==
    /\ pc = "confirm"
    /\ steps' = Append(steps, "confirm")
    /\ \E answer \in {"yes", "no"} :
         /\ reply' = answer
         /\ IF confirm_overwrite(answer)
            THEN pc' = "core" /\ UNCHANGED outcome
            ELSE pc' = "done" /\ outcome' = "declined"
    /\ UNCHANGED <<runs, parsed_input, probe, core, fs0, dirs0>>
    /\ UNCHANGED <<input_path, output_path, current_mode, page_entry, button_enabled>>
    /\ UNCHANGED <<parse_vars, world_vars>>

\* Lines 573-579: the mode's core function, which may meet a failure of the
\* document library, then _show_success or the except clause.
core_step ==
    /\ pc = "core"
    /\ steps' = Append(steps, "core")
    /\ \E fault \in Faults :
         LET r == core_func(current_mode, fs, dirs, input_path, parsed_input.val,
                            output_path, fault)
         IN  /\ fs' = r.fs
             /\ dirs' = r.dirs
             /\ core' = Summary(r)
             /\ IF r.err = ""
                THEN pc' = "done" /\ outcome' = "success"
                ELSE Fail(r.err)
    /\ UNCHANGED <<runs, parsed_input, probe, reply, fs0, dirs0>>
    /\ UNCHANGED <<input_path, output_path, current_mode, page_entry, button_enabled>>
    /\ UNCHANGED parse_vars

\* process_pdf has returned: the window takes input again.
return_step ==
    /\ pc = "done"
    /\ pc' = "idle"
    /\ RunReset
    /\ UNCHANGED runs
    /\ UNCHANGED <<input_path, output_path, current_mode, page_entry, button_enabled>>
    /\ UNCHANGED <<parse_vars, world_vars>>

Next ==
    \/ browse_input
    \/ browse_output
    \/ on_mode_changed
    \/ edit_page_entry
    \/ process_pdf
    \/ ensure_step
    \/ parse_step
    \/ probe_step
    \/ confirm_step
    \/ core_step
    \/ return_step

Spec == Init /\ [][Next]_vars

-----------------------------------------------------------------------------
(* Every text up to MaxLen typed into the page entry, then Execute: the    *)
(* input document is chosen, the output path is the suggested one, and any *)
(* mode is selected.                                                       *)

ParseAlphabet == {"0", "1", "-", ","}

InitTyped ==
    /\ ParseIdle
    /\ fs \in {InitialFs(MaxPages, pre) :
                 pre \in {{}, {File("/d", "a_trimmed", "pdf")}}}
    /\ dirs = {"/d"}
    /\ input_path = File("/d", "a", "pdf")
    /\ current_mode \in Modes
    /\ output_path = SuggestedOutput(input_path, NoPath, current_mode)
    /\ page_entry \in TextsUpTo(ParseAlphabet, MaxLen)
    /\ button_enabled = TRUE
    /\ pc = "idle"
    /\ runs = 0
    /\ parsed_input = NotParsed
    /\ probe = "none"
    /\ reply = "none"
    /\ core = NoCore
    /\ outcome = "none"
    /\ steps = <<>>
    /\ fs0 = <<>>
    /\ dirs0 = {}

NextTyped ==
    \/ process_pdf
    \/ ensure_step
    \/ parse_step
    \/ probe_step
    \/ confirm_step
    \/ core_step
    \/ return_step

SpecTyped == InitTyped /\ [][NextTyped]_vars

-----------------------------------------------------------------------------
(* parse_page_ranges on every pair of texts up to MaxPairLen.              *)

PairAlphabet == {"1", "2", "-", ",", " "}

InitPair ==
    /\ page_input \in TextsUpTo(PairAlphabet, MaxPairLen)
    /\ page_input2 \in TextsUpTo(PairAlphabet, MaxPairLen)
    /\ pages = NotCalled
    /\ pages2 = NotCalled
    /\ fs = InitialFs(0, {})
    /\ AppInit

CallParsePair ==
    /\ pages = NotCalled
    /\ pages' = parse_page_ranges(page_input)
    /\ pages2' = parse_page_ranges(page_input2)
    /\ UNCHANGED <<page_input, page_input2>>
    /\ UNCHANGED <<world_vars, app_vars, run_vars>>

NextPair == CallParsePair

SpecPair == InitPair /\ [][NextPair]_vars

-----------------------------------------------------------------------------
(* Properties of one run of process_pdf.                                   *)

RunDone == pc = "done"

CoreRan == core # NoCore

\* The output path names the input document itself.
SameFile ==
    /\ input_path # NoPath
    /\ output_path # NoPath
    /\ Resolve(input_path) = Resolve(output_path)

\* The pages of the input document when Execute was clicked.
SourcePages == IF input_path = NoPath THEN <<>> ELSE fs0[Resolve(input_path)].pages

\* The files written in this run that were there when Execute was clicked.
WrittenOver == {f \in SeqToSet(core.created) : f \in DOMAIN fs0}

StrictlyIncreasing(q) == \A i \in 1..(Len(q) - 1) : q[i] < q[i + 1]

IsPrefix(a, b) == Len(a) <= Len(b) /\ SubSeq(b, 1, Len(a)) = a

\* C1: in every mode, a file that exists when Execute is clicked and is
\* written over in the run was confirmed: the probe returned true and the
\* user answered Yes.
C1_NoSilentOverwrite ==
    WrittenOver # {} => (probe = "yes" /\ reply = "yes")

\* C2: when the probe returns true and the answer is negative, the run ends
\* without the core function being called and with the files and
\* directories as they were when Execute was clicked.
C2_DeclineAborts ==
    (probe = "yes" /\ reply = "no")
        => /\ pc = "done"
           /\ outcome = "declined"
           /\ ~CoreRan
           /\ steps = <<"ensure", "parse", "probe", "confirm">>
           /\ fs = fs0
           /\ dirs = dirs0

C2_Witness ==
    /\ pc = "done"
    /\ probe = "yes"
    /\ reply = "no"
    /\ current_mode = "image"

\* C3 as stated: whenever the resolved output path equals the resolved input
\* path, the run ends with the same-file error, for every raw text, and
\* neither the parser nor the probe nor the core function is reached.
C3_SameFileAlwaysReported ==
    (RunDone /\ SameFile)
        => /\ outcome = E_SAME
           /\ parsed_input = NotParsed
           /\ probe = "none"
           /\ ~CoreRan
           /\ fs = fs0

\* C3 amended: the same, for every raw text that is not blank; a blank text
\* ends the run with the "please enter" warning before the output path is
\* looked at, also without parsing, probing or writing.
C3_SameFileReportedUnlessBlank ==
    (RunDone /\ SameFile)
        => /\ outcome = IF StrippedEntry = <<>> THEN E_BLANK ELSE E_SAME
           /\ steps = IF StrippedEntry = <<>> THEN <<>> ELSE <<"ensure">>
           /\ parsed_input = NotParsed
           /\ probe = "none"
           /\ ~CoreRan
           /\ fs = fs0
           /\ dirs = dirs0

\* The same file through the link: the raw paths differ.
C3_Witness ==
    /\ RunDone
    /\ SameFile
    /\ input_path # output_path
    /\ outcome = E_SAME

\* C4: trim_pdf and convert_to_images split the PageSet P into
\* valid = P /\ [1,N] and invalid = P \ [1,N]; without a valid page they
\* fail with the no-valid-pages error and write nothing; otherwise, unless
\* the document library fails, Trim writes one document holding the valid
\* pages in ascending order and Rasterize writes one PNG per valid page,
\* named by the page number; invalid pages alone never make them fail.
C4_ValidPagesOnly ==
    (RunDone /\ CoreRan /\ current_mode \in {"selection", "image"})
        => LET P == SeqToSet(parsed_input.val)
               N == Len(SourcePages)
               valid == P \cap (1..N)
           IN  /\ SeqToSet(core.valid) = valid
               /\ SeqToSet(core.invalid) = P \ (1..N)
               /\ StrictlyIncreasing(core.valid)
               /\ valid = {} =>
                     /\ core.err = IF current_mode = "selection"
                                   THEN E_NOVALID_PDF ELSE E_NOVALID_IMG
                     /\ core.created = <<>>
                     /\ fs = fs0
                     /\ dirs = dirs0
               /\ (valid # {} /\ core.err # "") => core.io_failed
               /\ (valid # {} /\ core.err = "" /\ current_mode = "selection") =>
                     /\ core.created = <<Resolve(output_path)>>
                     /\ fs[Resolve(output_path)].kind = "pdf"
                     /\ Len(fs[Resolve(output_path)].pages) = Cardinality(valid)
                     /\ fs[Resolve(output_path)].pages =
                            [i \in 1..Len(core.valid) |-> SourcePages[core.valid[i]]]
               /\ (valid # {} /\ core.err = "" /\ current_mode = "image") =>
                     /\ Len(core.created) = Cardinality(valid)
                     /\ \A i \in 1..Len(core.created) :
                          /\ core.created[i] =
                               Resolve(File(output_path.dir,
                                            output_path.stem \o "_page"
                                                \o ToString(core.valid[i]), "png"))
                          /\ fs[core.created[i]] = Png(SourcePages[core.valid[i]])
                     /\ DOMAIN fs = DOMAIN fs0 \cup SeqToSet(core.created)

\* Trim succeeds with some pages kept and some skipped.
C4_Witness ==
    /\ RunDone
    /\ current_mode = "selection"
    /\ outcome = "success"
    /\ core.invalid # <<>>
    /\ Len(core.valid) >= 2

CeilDiv(n, k) == (n + k - 1) \div k

\* C5: for N >= 0 pages and an accepted chunk size k > 0, split_pdf, unless
\* the document library fails, writes exactly ceil(N/k) files named
\* {base}_part1.pdf .. in order; part i holds the 0-based pages
\* [(i-1)k, min(ik, N)); the page counts sum to N; every part but the last
\* has k pages; no page gives no file and k > N >= 1 gives one file.
C5_SplitChunks ==
    (RunDone /\ CoreRan /\ current_mode = "split")
        => LET k == parsed_input.val[1]
               N == Len(SourcePages)
               made == core.created
               PartPages(i) == fs[made[i]].pages
           IN  /\ k > 0
               /\ core.err # "" => core.io_failed
               /\ core.err = "" =>
                     /\ Len(made) = CeilDiv(N, k)
                     /\ \A i \in 1..Len(made) :
                          /\ made[i] =
                               Resolve(File(output_path.dir,
                                            output_path.stem \o "_part" \o ToString(i),
                                            "pdf"))
                          /\ PartPages(i) =
                               SubSeq(SourcePages, (i - 1) * k + 1, Min(i * k, N))
                          /\ i < Len(made) => Len(PartPages(i)) = k
                     /\ \A i, j \in 1..Len(made) : i # j => made[i] # made[j]
                     /\ N = 0 => made = <<>>
                     /\ (k > N /\ N >= 1) => Len(made) = 1
                     /\ LET RECURSIVE Sum(_)
                            Sum(i) == IF i = 0 THEN 0 ELSE Len(PartPages(i)) + Sum(i - 1)
                        IN  Sum(Len(made)) = N

\* A split into two parts, the last one shorter.
C5_Witness ==
    /\ RunDone
    /\ current_mode = "split"
    /\ outcome = "success"
    /\ Len(core.created) = 2
    /\ Len(fs[core.created[2]].pages) < parsed_input.val[1]

-----------------------------------------------------------------------------
(* What a page specification denotes, read off the text segment by segment.*)

\* The non-empty comma-separated segments, blanks removed.
Segments(text) ==
    LET parts == SplitOn(RemoveSpaces(text), ",")
    IN  {parts[i] : i \in 1..Len(parts)} \ {<<>>}

\* The places where a segment can be read as "left-right".
Dashes(seg) == {i \in 2..(Len(seg) - 1) : seg[i] = "-"}

Left(seg, i) == SubSeq(seg, 1, i - 1)

Right(seg, i) == SubSeq(seg, i + 1, Len(seg))

\* A page number or a range a-b of page numbers with a <= b, the numbers
\* written as unsigned decimal numerals.
WellFormedSegment(seg) ==
    \/ AllDigits(seg)
    \/ \E i \in Dashes(seg) :
         /\ AllDigits(Left(seg, i))
         /\ AllDigits(Right(seg, i))
         /\ DecimalValue(Left(seg, i)) <= DecimalValue(Right(seg, i))

SegmentPages(seg) ==
    IF AllDigits(seg) THEN {DecimalValue(seg)}
    ELSE UNION {DecimalValue(Left(seg, i))..DecimalValue(Right(seg, i)) : i \in Dashes(seg)}

WellFormed(text) == \A seg \in Segments(text) : WellFormedSegment(seg)

Denoted(text) == UNION {SegmentPages(seg) : seg \in Segments(text)}

\* An integer written with an optional minus sign.
IsSigned(s) == AllDigits(s) \/ (s # <<>> /\ Head(s) = "-" /\ AllDigits(Tail(s)))

SignedValue(s) == IF AllDigits(s) THEN DecimalValue(s) ELSE 0 - DecimalValue(Tail(s))

\* The readings of a segment as a range a-b of signed integers.
SignedRanges(seg) ==
    {<<SignedValue(Left(seg, i)), SignedValue(Right(seg, i))>> :
        i \in {j \in Dashes(seg) : IsSigned(Left(seg, j)) /\ IsSigned(Right(seg, j))}}

\* The segment is a range a-b with a > b.
DescendingSegment(seg) == \E r \in SignedRanges(seg) : r[1] > r[2]

HasDescendingRange(text) == \E seg \in Segments(text) : DescendingSegment(seg)

\* A signed page number, or a range a-b of signed numbers with a <= b.
SignedSegment(seg) ==
    IsSigned(seg) \/ \E r \in SignedRanges(seg) : r[1] <= r[2]

\* The numbers a segment names as a single page or as an endpoint of a range
\* with start <= end.
NamedBy(seg) ==
    IF IsSigned(seg) THEN {SignedValue(seg)}
    ELSE UNION {{r[1], r[2]} : r \in {q \in SignedRanges(seg) : q[1] <= q[2]}}

Named(text) == UNION {NamedBy(seg) : seg \in Segments(text)}

PageMode == current_mode \in {"selection", "image"}

Parsed == parsed_input # NotParsed

-----------------------------------------------------------------------------
(* Properties of parse_page_ranges.                                        *)

Called == pages # NotCalled

ParsesTo(text, r) ==
    WellFormed(text) =>
        /\ r.ok
        /\ StrictlyIncreasing(r.val)
        /\ SeqToSet(r.val) = Denoted(text)

\* C6: two well-formed specifications that denote the same set of pages
\* parse to the same result, whatever the order, repetition or overlap of
\* their segments, their blanks and their empty segments; the result is
\* strictly increasing and holds exactly the denoted pages.
C6_SameSetSameResult ==
    Called =>
        /\ ParsesTo(page_input, pages)
        /\ ParsesTo(page_input2, pages2)
        /\ (/\ WellFormed(page_input)
            /\ WellFormed(page_input2)
            /\ Denoted(page_input) = Denoted(page_input2)) => pages.val = pages2.val

\* "2,1" and "1-2".
C6_Witness ==
    /\ Called
    /\ page_input = <<"2", ",", "1">>
    /\ page_input2 = <<"1", "-", "2">>
    /\ pages.val = <<1, 2>>
    /\ pages2.val = <<1, 2>>

\* C7: a specification with a range segment a-b, a > b, at any position,
\* makes parse_page_ranges raise ValueError and return nothing, whatever the
\* other segments are; process_pdf reports "Invalid input" and neither
\* probes nor asks nor calls the core function.
C7_DescendingRangeRejected ==
    (PageMode /\ HasDescendingRange(StrippedEntry))
        => /\ Parsed => (~parsed_input.ok /\ parsed_input.val = <<>>)
           /\ probe = "none"
           /\ reply = "none"
           /\ ~CoreRan
           /\ (RunDone /\ Parsed) =>
                 (outcome = E_INVALID /\ steps = <<"ensure", "parse">> /\ fs = fs0)

\* "1,1-0": the range that descends comes after a well-formed segment.
C7_Witness ==
    /\ RunDone
    /\ current_mode = "image"
    /\ page_entry = <<"1", ",", "1", "-", "0">>
    /\ outcome = E_INVALID

\* C8 as stated: every p <= 0 named as a single page, or as an endpoint of a
\* range with start <= end, is accepted by parse_page_ranges and is in the
\* returned PageSet.
C8_NonPositiveAccepted ==
    (/\ PageMode
     /\ Parsed
     /\ \A seg \in Segments(StrippedEntry) : SignedSegment(seg))
        => \A p \in Named(StrippedEntry) :
              p <= 0 => (parsed_input.ok /\ p \in SeqToSet(parsed_input.val))

\* C8 amended: page 0, written without a sign, is accepted at parse time: a
\* well-formed specification that names 0 as a single page or inside a range
\* parses, 0 is in the PageSet, and 0 is classified invalid only by the
\* transform. A negative number is never accepted: the PageSet holds no
\* negative page, and a specification that names a negative number makes
\* parse_page_ranges raise ValueError.
C8_ZeroAcceptedNegativeRejected ==
    (PageMode /\ Parsed)
        => /\ (WellFormed(StrippedEntry) /\ 0 \in Denoted(StrippedEntry)) =>
                 /\ parsed_input.ok
                 /\ 0 \in SeqToSet(parsed_input.val)
                 /\ CoreRan => /\ 0 \in SeqToSet(core.invalid)
                               /\ 0 \notin SeqToSet(core.valid)
           /\ parsed_input.ok => \A i \in 1..Len(parsed_input.val) : parsed_input.val[i] >= 0
           /\ (/\ \A seg \in Segments(StrippedEntry) : SignedSegment(seg)
               /\ \E p \in Named(StrippedEntry) : p < 0) =>
                 /\ ~parsed_input.ok
                 /\ ~CoreRan
                 /\ RunDone => outcome = E_INVALID

\* "0-1": page 1 is processed, page 0 is skipped by the transform.
C8_Witness ==
    /\ RunDone
    /\ page_entry = <<"0", "-", "1">>
    /\ outcome = "success"
    /\ 0 \in SeqToSet(core.invalid)
    /\ core.valid = <<1>>

-----------------------------------------------------------------------------
(* The order of the steps of process_pdf.                                  *)

StepsInOrder ==
    \/ IsPrefix(steps, <<"ensure", "parse", "probe", "confirm", "core">>)
    \/ IsPrefix(steps, <<"ensure", "parse", "probe", "core">>)

ParseFailureFirst ==
    (RunDone /\ outcome = E_INVALID)
        => (steps = <<"ensure", "parse">> /\ probe = "none" /\ reply = "none")

CoreLast ==
    CoreRan
        => /\ ensure_output_path(input_path, output_path) = ""
           /\ parsed_input.ok
           /\ probe = "no" \/ (probe = "yes" /\ reply = "yes")
           /\ steps \in {<<"ensure", "parse", "probe", "confirm", "core">>,
                         <<"ensure", "parse", "probe", "core">>}

\* C9 as stated: every run goes through output-path validation, parsing,
\* probe (and confirmation) and transform in this order; an unset or
\* same-file output path is reported whatever the raw text is; a parse
\* failure comes before any probe or question; the transform is called only
\* after the three earlier steps succeeded.
C9_OutputPathCheckedFirst ==
    /\ StepsInOrder
    /\ (RunDone /\ (output_path = NoPath \/ SameFile))
          => (outcome \in {E_NOOUT, E_SAME} /\ steps = <<"ensure">>)
    /\ ParseFailureFirst
    /\ CoreLast

\* C9 amended: the same for every run whose raw text is not blank; a run
\* with a blank text ends with the "please enter" warning before the output
\* path is validated and performs none of the steps.
C9_OrderAfterBlankCheck ==
    /\ StepsInOrder
    /\ (RunDone /\ StrippedEntry # <<>> /\ (output_path = NoPath \/ SameFile))
          => (outcome \in {E_NOOUT, E_SAME} /\ steps = <<"ensure">>)
    /\ (RunDone /\ StrippedEntry = <<>>) => (outcome = E_BLANK /\ steps = <<>>)
    /\ ParseFailureFirst
    /\ CoreLast

\* The same-file error is reported for a text that would not parse.
C9_Witness ==
    /\ RunDone
    /\ SameFile
    /\ page_entry = <<"x">>
    /\ outcome = E_SAME
    /\ steps = <<"ensure">>

\* C10: when a transform ends, by a normal return or by any error, every
\* document handle it opened has been closed.
C10_HandlesClosed ==
    (RunDone /\ CoreRan) => core.open = 0

-----------------------------------------------------------------------------
(* The input document and the Execute button.                              *)

\* C11: in no mode does a transform started by process_pdf write a file at
\* the resolved path of the input document it reads: the output path that
\* passed _ensure_output_path, every {stem}_part{N}.pdf and every
\* {stem}_page{N}.png differ from it.
C11_InputNeverWritten ==
    (CoreRan /\ input_path # NoPath)
        => Resolve(input_path) \notin SeqToSet(core.created)

\* C12: the Execute button is enabled only while input_path holds a PDF that
\* was opened with success; so no transform is called with input_path unset,
\* and no run that reaches the transform has skipped the same-file test.
C12_ButtonNeedsInput ==
    /\ button_enabled => (input_path # NoPath /\ CanOpen(fs, input_path))
    /\ CoreRan => input_path # NoPath

====
